---- MODULE Spec2Model ----
(***************************************************************************)
(* A model of twitter.pants.commands.setup_py.SetupPy:                     *)
(*   - minified_dependencies: the recursive resolve() traversal with its   *)
(*     provider stack, depmap and parents set, followed by the elide walk; *)
(*   - declares_namespace_package: the scan over the ast.Call nodes;       *)
(*   - nearest_subpackage / find_packages: the two passes over the files   *)
(*     of a chroot, with dotted module paths kept as character strings.    *)
(* Each subsystem has its own specification (Spec, SpecDetect,             *)
(* SpecClassify); the variables of the other subsystems stay idle.         *)
(***************************************************************************)
EXTENDS Integers, Sequences, FiniteSets, TLC

VARIABLES
  \* ---- the build graph (immutable during one minimization run)
  kind,        \* node -> "prov" | "lib" | "req"
  deps,        \* node -> its declared dependencies (an OrderedSet, as a sequence)
  bins,        \* node -> provides.binaries.values() (a sequence)
  \* ---- minified_dependencies
  pc,          \* "build" | "resolve" | "resolved" | "elide" | "done" | "error" | "assert" | "idle"
  providers,   \* the list `providers`
  depmap,      \* the defaultdict `depmap`: key -> OrderedSet (a sequence)
  parents,     \* the set `parents`, shared by every recursive call
  frames,      \* the call stack of resolve(): <<[t, di, pi], ...>>
  err,         \* the dep named by the TargetDefinitionException, <<>> if none
  root_deps,   \* root_deps
  walk,        \* the targets root_target.walk still has to hand to elide
  run,         \* 1 or 2: which call of minified_dependencies this is
  first,       \* the outcome of the first call
  \* ---- declares_namespace_package
  calls,       \* the ast.Call nodes of the parsed file, in ast.walk order
  ci,          \* index of the call the loop is at
  verdict,     \* "scan" | "true" | "false" | "idle"
  \* ---- find_packages
  files,       \* the files below base: a set of <<directory path, filename>>
  todo,        \* the files iter_files() still has to yield in the current pass
  stage,       \* "tree" | "pass1" | "pass2" | "returned" | "assert" | "idle"
  packages,    \* the set `packages` (module strings)
  namespace_packages,
  resources,   \* the defaultdict `resources`: module string -> set of relative filenames
  warned,      \* the files a WARNING was printed for
  placed       \* history: file -> <<key, relative filename>> it was recorded as

minifyVars == <<kind, deps, bins, pc, providers, depmap, parents, frames, err,
                root_deps, walk, run, first>>
detectVars == <<calls, ci, verdict>>
classifyVars == <<files, todo, stage, packages, namespace_packages, resources,
                  warned, placed>>
vars == <<minifyVars, detectVars, classifyVars>>

\* ------------------------------------------------------------------ bounds

\* The largest number of dependency edges (declared plus binaries) of a graph.
MaxEdges == 4

\* The largest number of call expressions of a parsed file.
MaxCalls == 2

\* The largest number of files below the source root of a chroot.
MaxFiles == 3

Nodes == {1, 2, 3, 4}
Kinds == {"prov", "lib", "req"}

\* ------------------------------------------------------- sequence helpers

Range(s) == {s[i] : i \in 1..Len(s)}

Last(s) == s[Len(s)]

Front(s) == SubSeq(s, 1, Len(s) - 1)

\* OrderedSet.add: append unless present.
OAdd(s, x) == IF x \in Range(s) THEN s ELSE Append(s, x)

\* OrderedSet.discard: remove, keeping the order of the rest.
ODiscard(s, x) == SelectSeq(s, LAMBDA y : y # x)

RECURSIVE OUnion(_, _)
\* OrderedSet | OrderedSet: the left operand, then the new members of the right.
OUnion(s, t) == IF t = <<>> THEN s ELSE OUnion(OAdd(s, Head(t)), Tail(t))

\* ------------------------------------------------- minified_dependencies

\* isinstance(target, PythonTarget) and target.provides
IsProvider(t) == kind[t] = "prov"

\* target.provides.key: unique per provider (the data model's invariant).
Key(t) == <<"k1", "k2", "k3", "k4">>[t]

\* combined_dependencies(target)
combined_dependencies(t) ==
  IF IsProvider(t) THEN OUnion(deps[t], bins[t]) ELSE deps[t]

\* depmap[prv].add(dep) on a defaultdict(OrderedSet)
DepmapAdd(dm, prv, dep) ==
  IF prv \in DOMAIN dm
    THEN [dm EXCEPT ![prv] = OAdd(@, dep)]
    ELSE dm @@ (prv :> <<dep>>)

\* Mutant: the dependency is recorded under the top of the stack only.
RecordUnderTop(pi) == providers[Len(providers)]

\* the providers a dependency is recorded under: `for prv in providers`
\* visits the entry at the loop's index.
RecordUnder(pi) == providers[pi]

\* Mutant: the dep stays in parents after the recursive call returns.
ParentsKeep(ps, dep) == ps

\* parents.remove(dep)
ParentsRemove(ps, dep) == ps \ {dep}

\* Mutant: the set of an earlier call is reused (a shared default argument).
RootParentsShared == parents

\* parents = parents or set(), at the call resolve(root_target)
RootParents == {}

RECURSIVE EdgesOf(_)
EdgesOf(S) ==
  IF S = {} THEN 0
  ELSE LET n == CHOOSE x \in S : TRUE
       IN Len(deps[n]) + Len(bins[n]) + EdgesOf(S \ {n})

\* The number of dependency edges of the graph built so far.
EdgeCount == EdgesOf(Nodes)

\* The target setup_py is called against; it provides an artifact
\* (SetupPy.__init__ refuses any other target).
root_target == 1

RECURSIVE Closure(_, _)
\* The nodes reachable from the set S by following combined dependencies.
Closure(S, seen) ==
  LET new == UNION {Range(combined_dependencies(n)) : n \in S} \ seen
  IN IF new = {} THEN seen ELSE Closure(new, seen \cup new)

\* Reachable by one or more combined-dependency edges.
ReachPlus(n) == Closure({n}, {})

\* Reachable by zero or more combined-dependency edges.
ReachStar(n) == {n} \cup ReachPlus(n)

Top == frames[Len(frames)]

Frame(t) == [t |-> t, di |-> 1, pi |-> 1]

\* The graph collaborator adds a dependency edge (target.dependencies is an
\* OrderedSet; a PythonRequirement has none).  Only targets the root reaches
\* get edges: the call never reads the dependencies of any other target.
AddDependency(n, m) ==
  /\ pc = "build"
  /\ EdgeCount < MaxEdges
  /\ n \in ReachStar(root_target)
  /\ kind[n] # "req"
  /\ m \notin Range(deps[n])
  /\ deps' = [deps EXCEPT ![n] = Append(@, m)]
  /\ UNCHANGED <<kind, bins, pc, providers, depmap, parents, frames, err,
                 root_deps, walk, run, first>>
  /\ UNCHANGED <<detectVars, classifyVars>>

\* The graph collaborator attaches a binary to a provider's PythonArtifact.
AddBinary(n, m) ==
  /\ pc = "build"
  /\ EdgeCount < MaxEdges
  /\ n \in ReachStar(root_target)
  /\ kind[n] = "prov"
  /\ kind[m] = "lib"
  /\ bins[n] = <<>>
  /\ bins' = [bins EXCEPT ![n] = Append(@, m)]
  /\ UNCHANGED <<kind, deps, pc, providers, depmap, parents, frames, err,
                 root_deps, walk, run, first>>
  /\ UNCHANGED <<detectVars, classifyVars>>

\* minified_dependencies(root_target) is called: depmap and providers are
\* fresh locals, and resolve(root_target) pushes the root's key.
Enter ==
  /\ pc' = "resolve"
  /\ depmap' = <<>>
  /\ providers' = IF IsProvider(root_target) THEN <<Key(root_target)>> ELSE <<>>
  /\ parents' = RootParents
  /\ frames' = <<Frame(root_target)>>
  /\ err' = <<>>
  /\ root_deps' = <<>>
  /\ walk' = <<>>
  /\ UNCHANGED <<kind, deps, bins>>
  /\ UNCHANGED <<detectVars, classifyVars>>

\* The first call of minified_dependencies (write_contents).
Call ==
  /\ pc = "build"
  /\ Enter
  /\ UNCHANGED <<run, first>>

\* The body of the innermost loop for one (dependency, prv) pair: record the
\* dependency, raise on a cycle, otherwise recurse.  dependency.resolve()
\* yields the target itself.
Visit ==
  /\ pc = "resolve"
  /\ Top.di <= Len(combined_dependencies(Top.t))
  /\ Top.pi <= Len(providers)
  /\ LET dep == combined_dependencies(Top.t)[Top.di]
     IN /\ depmap' = DepmapAdd(depmap, RecordUnder(Top.pi), dep)
        /\ IF dep \in parents
             THEN /\ pc' = "error"
                  /\ err' = <<dep>>
                  /\ UNCHANGED <<parents, frames, providers>>
             ELSE /\ parents' = parents \cup {dep}
                  /\ frames' = Append(frames, Frame(dep))
                  /\ providers' = IF IsProvider(dep)
                                    THEN Append(providers, Key(dep))
                                    ELSE providers
                  /\ UNCHANGED <<pc, err>>
  /\ UNCHANGED <<kind, deps, bins, root_deps, walk, run, first>>
  /\ UNCHANGED <<detectVars, classifyVars>>

\* `for prv in providers` is exhausted: on to the next dependency.
NextDependency ==
  /\ pc = "resolve"
  /\ Top.di <= Len(combined_dependencies(Top.t))
  /\ Top.pi > Len(providers)
  /\ frames' = [frames EXCEPT ![Len(frames)] = [@ EXCEPT !.di = @ + 1, !.pi = 1]]
  /\ UNCHANGED <<kind, deps, bins, pc, providers, depmap, parents, err,
                 root_deps, walk, run, first>>
  /\ UNCHANGED <<detectVars, classifyVars>>

\* Mutant: the pop is missing.
PopProviderMissing(ps) == ps

\* providers.pop(), after `assert providers[-1] == target.provides.key`
PopProvider(ps) == Front(ps)

\* resolve(target) has visited every dependency: pop the provider it pushed
\* and return to the caller, which removes the target from parents and goes
\* on with the next prv.
Return ==
  /\ pc = "resolve"
  /\ Top.di > Len(combined_dependencies(Top.t))
  /\ IF IsProvider(Top.t) /\ (providers = <<>> \/ Last(providers) # Key(Top.t))
       THEN /\ pc' = "assert"
            /\ UNCHANGED <<providers, frames, parents>>
       ELSE /\ providers' = IF IsProvider(Top.t) THEN PopProvider(providers) ELSE providers
            /\ IF Len(frames) = 1
                 THEN /\ frames' = <<>>
                      /\ pc' = "resolved"
                      /\ UNCHANGED parents
                 ELSE /\ frames' = [Front(frames) EXCEPT ![Len(frames) - 1] =
                                       [@ EXCEPT !.pi = @ + 1]]
                      /\ parents' = ParentsRemove(parents, Top.t)
                      /\ UNCHANGED pc
  /\ UNCHANGED <<kind, deps, bins, depmap, err, root_deps, walk, run, first>>
  /\ UNCHANGED <<detectVars, classifyVars>>

RECURSIVE WalkFrom(_, _)
\* Target.walk: visits the target, then its declared dependencies depth
\* first, each node once.  `acc` is the sequence walked so far.
WalkFrom(todoSeq, acc) ==
  IF todoSeq = <<>> THEN acc
  ELSE LET t == Head(todoSeq)
       IN IF t \in Range(acc)
            THEN WalkFrom(Tail(todoSeq), acc)
            ELSE WalkFrom(deps[t] \o Tail(todoSeq), Append(acc, t))

\* root_target.walk(elide) hands these targets to elide, in this order.
WalkOrder == WalkFrom(<<root_target>>, <<>>)

\* root_deps = depmap.pop(root_target.provides.key, {}), and the walk begins.
PopRootDeps ==
  /\ pc = "resolved"
  /\ root_deps' = IF Key(root_target) \in DOMAIN depmap
                    THEN depmap[Key(root_target)] ELSE <<>>
  /\ depmap' = [k \in DOMAIN depmap \ {Key(root_target)} |-> depmap[k]]
  /\ walk' = WalkOrder
  /\ pc' = "elide"
  /\ UNCHANGED <<kind, deps, bins, providers, parents, frames, err, run, first>>
  /\ UNCHANGED <<detectVars, classifyVars>>

\* Mutant: the test looks at the keys of depmap, not at the depsets.
ProvidedKey(target) == IsProvider(target) /\ Key(target) \in DOMAIN depmap

\* any(target in depset for depset in depmap.values())
Provided(target) == \E k \in DOMAIN depmap : target \in Range(depmap[k])

\* elide(target), for the next target of the walk
Elide ==
  /\ pc = "elide"
  /\ walk # <<>>
  /\ root_deps' = IF Provided(Head(walk)) THEN ODiscard(root_deps, Head(walk))
                                          ELSE root_deps
  /\ walk' = Tail(walk)
  /\ UNCHANGED <<kind, deps, bins, pc, providers, depmap, parents, frames, err,
                 run, first>>
  /\ UNCHANGED <<detectVars, classifyVars>>

\* return root_deps
Finish ==
  /\ pc = "elide"
  /\ walk = <<>>
  /\ pc' = "done"
  /\ UNCHANGED <<kind, deps, bins, providers, depmap, parents, frames, err,
                 root_deps, walk, run, first>>
  /\ UNCHANGED <<detectVars, classifyVars>>

\* What a call of minified_dependencies gives its caller: the ordered set, or
\* the TargetDefinitionException with the dep it names.
Outcome == IF pc = "done" THEN <<"ok", root_deps>> ELSE <<"raised", err>>

\* The second call of minified_dependencies on the same target (write_setup).
CallAgain ==
  /\ pc \in {"done", "error"}
  /\ run = 1
  /\ run' = 2
  /\ first' = Outcome
  /\ Enter

\* ------------------------------------------- declares_namespace_package

\* An ast.Call node, as far as the scan reads it: the number of positional
\* arguments, the node type of call.func with its id or attr, and args[0]
\* ("__name__" and "other_name" are ast.Name nodes, "expr" is any other
\* expression, "none" stands for no argument).
CallShapes ==
  {c \in [nargs : {0, 1, 2},
          func : {"Name", "Attribute", "Other"},
          id : {"declare_namespace", "f", ""},
          arg : {"__name__", "other_name", "expr", "none"}] :
     /\ (c.func = "Other") <=> (c.id = "")
     /\ (c.nargs = 0) <=> (c.arg = "none")}

\* The call of SetupPy.DECLARE_NAMESPACE:
\* __import__("pkg_resources").declare_namespace(__name__)
DECLARE_NAMESPACE ==
  [nargs |-> 1, func |-> "Attribute", id |-> "declare_namespace", arg |-> "__name__"]

\* len(call.args) != 1
WrongArity(c) == c.nargs # 1

\* isinstance(call.func, ast.Attribute) and call.func.attr != 'declare_namespace'
WrongAttribute(c) == c.func = "Attribute" /\ c.id # "declare_namespace"

\* isinstance(call.func, ast.Name) and call.func.id != 'declare_namespace'
WrongName(c) == c.func = "Name" /\ c.id # "declare_namespace"

\* isinstance(call.args[0], ast.Name) and call.args[0].id == '__name__'
ArgIsName(c) == c.arg = "__name__"

RECURSIVE declares_namespace_package(_)
\* declares_namespace_package on the calls of a file, as one function (the
\* form find_packages uses).
declares_namespace_package(cs) ==
  IF cs = <<>> THEN FALSE
  ELSE LET c == Head(cs)
       IN IF WrongArity(c) \/ WrongAttribute(c) \/ WrongName(c)
            THEN declares_namespace_package(Tail(cs))
            ELSE ArgIsName(c) \/ declares_namespace_package(Tail(cs))

Scanning == verdict = "scan" /\ ci <= Len(calls)

DetectStep(next_verdict, next_ci) ==
  /\ verdict' = next_verdict
  /\ ci' = next_ci
  /\ UNCHANGED <<calls, minifyVars, classifyVars>>

\* line 159-160: continue
SkipArity ==
  /\ Scanning
  /\ WrongArity(calls[ci])
  /\ DetectStep("scan", ci + 1)

\* line 161-162: continue
SkipAttribute ==
  /\ Scanning
  /\ ~WrongArity(calls[ci])
  /\ WrongAttribute(calls[ci])
  /\ DetectStep("scan", ci + 1)

\* line 163-164: continue
SkipName ==
  /\ Scanning
  /\ ~WrongArity(calls[ci])
  /\ ~WrongAttribute(calls[ci])
  /\ WrongName(calls[ci])
  /\ DetectStep("scan", ci + 1)

\* line 165-166: return True
ReturnTrue ==
  /\ Scanning
  /\ ~WrongArity(calls[ci])
  /\ ~WrongAttribute(calls[ci])
  /\ ~WrongName(calls[ci])
  /\ ArgIsName(calls[ci])
  /\ DetectStep("true", ci)

\* line 165 is false: the loop goes on
NextCall ==
  /\ Scanning
  /\ ~WrongArity(calls[ci])
  /\ ~WrongAttribute(calls[ci])
  /\ ~WrongName(calls[ci])
  /\ ~ArgIsName(calls[ci])
  /\ DetectStep("scan", ci + 1)

\* line 167: return False
ReturnFalse ==
  /\ verdict = "scan"
  /\ ci > Len(calls)
  /\ DetectStep("false", ci)

IdleDetect == calls = <<>> /\ ci = 0 /\ verdict = "idle"

\* ------------------------------------------------------- find_packages

\* Strings are sequences of one-character strings.
Str1(c) == <<c>>

\* The directories a chroot may hold below its source root, each as the
\* sequence of its path components (<<>> is the source root itself).  One
\* directory name, "c.d", holds a dot.
DirUniverse ==
  { <<>>,
    <<Str1("a")>>,
    <<Str1("b")>>,
    <<Str1("a"), Str1("c")>>,
    <<Str1("b"), Str1("c")>>,
    <<Str1("a"), Str1("c"), Str1("d")>>,
    <<Str1("a"), <<"c", ".", "d">> >> }

FileNames == {"__init__.py", "m.py", "r.txt"}

\* A file: its directory, its name and, for a package marker, the calls of
\* its source.
FileUniverse ==
  {f \in [dir : DirUniverse, name : FileNames,
          src : {<<>>, <<DECLARE_NAMESPACE>>}] :
     f.name # "__init__.py" => f.src = <<>>}

RECURSIVE JoinWith(_, _)
\* sep.join(parts)
JoinWith(parts, sep) ==
  IF parts = <<>> THEN <<>>
  ELSE IF Len(parts) = 1 THEN parts[1]
  ELSE parts[1] \o <<sep>> \o JoinWith(Tail(parts), sep)

RECURSIVE SplitFrom(_, _, _)
\* str.split('.'): `cur` is the component being read, `acc` those read.
SplitFrom(str, cur, acc) ==
  IF str = <<>> THEN Append(acc, cur)
  ELSE IF Head(str) = "." THEN SplitFrom(Tail(str), <<>>, Append(acc, cur))
  ELSE SplitFrom(Tail(str), Append(cur, Head(str)), acc)

Split(str) == SplitFrom(str, <<>>, <<>>)

\* str.replace(old, new), for one-character old and new
Replace(str, old, new) == [i \in 1..Len(str) |-> IF str[i] = old THEN new ELSE str[i]]

\* str.startswith(prefix)
StartsWith(str, prefix) ==
  Len(prefix) <= Len(str) /\ SubSeq(str, 1, Len(prefix)) = prefix

\* os.path.relpath(root, base).replace(os.path.sep, '.'): the source root
\* itself is '.'.
Module(dir) ==
  IF dir = <<>> THEN <<".">> ELSE Replace(JoinWith(dir, "/"), "/", ".")

\* filename.endswith('.py')
IsSource(filename) == filename \in {"__init__.py", "m.py"}

RECURSIVE TakeWhileEqual(_, _)
\* Mutant: every matching pair is kept, not only the leading run.
FilterEqual(xs, ys) ==
  IF xs = <<>> \/ ys = <<>> THEN <<>>
  ELSE SelectSeq([i \in 1..(IF Len(xs) < Len(ys) THEN Len(xs) ELSE Len(ys)) |->
                    IF xs[i] = ys[i] THEN <<xs[i]>> ELSE <<>>],
                 LAMBDA e : e # <<>>)

\* takewhile(lambda pair: pair[0] == pair[1], izip(xs, ys)), first members
TakeWhileEqual(xs, ys) ==
  IF xs = <<>> \/ ys = <<>> \/ Head(xs) # Head(ys) THEN <<>>
  ELSE <<Head(xs)>> \o TakeWhileEqual(Tail(xs), Tail(ys))

\* shared_prefix(candidate) inside nearest_subpackage(package, ...)
shared_prefix(package, candidate) == TakeWhileEqual(Split(package), Split(candidate))

\* nearest_subpackage(package, all_packages): the longest non-empty shared
\* prefix, joined; the package itself when there is none.  (Two shared
\* prefixes of one length are both the same leading run of `package`.)
nearest_subpackage(package, all_packages) ==
  LET shared_packages ==
        {shared_prefix(package, c) : c \in all_packages} \ {<<>>}
  IN IF shared_packages = {} THEN package
     ELSE JoinWith(CHOOSE sp \in shared_packages :
                     \A o \in shared_packages : Len(o) <= Len(sp), ".")

\* Mutant: every source file is skipped in the second pass.
SkipsEverySource(module, filename) == IsSource(filename)

\* lines 227-234: the second pass skips (continue) a source file of a package
SkipsSource(module, filename) == IsSource(filename) /\ module \in packages

\* resources[key].add(name) on a defaultdict(set)
ResourcesAdd(res, key, name) ==
  IF key \in DOMAIN res
    THEN [res EXCEPT ![key] = @ \cup {name}]
    ELSE res @@ (key :> {name})

classifyFrame == UNCHANGED <<minifyVars, detectVars>>

\* The staging collaborator links a file into the chroot.
AddFile(f) ==
  /\ stage = "tree"
  /\ Cardinality(files) < MaxFiles
  /\ \A g \in files : ~(g.dir = f.dir /\ g.name = f.name)
  /\ files' = files \cup {f}
  /\ UNCHANGED <<todo, stage, packages, namespace_packages, resources, warned, placed>>
  /\ classifyFrame

\* find_packages(chroot) is called: the first pass begins.
FindPackages ==
  /\ stage = "tree"
  /\ stage' = "pass1"
  /\ todo' = files
  /\ packages' = {}
  /\ namespace_packages' = {}
  /\ resources' = <<>>
  /\ UNCHANGED <<files, warned, placed>>
  /\ classifyFrame

\* First pass, a file that is no package marker: continue.
Pass1Other(f) ==
  /\ stage = "pass1"
  /\ f \in todo
  /\ f.name # "__init__.py"
  /\ todo' = todo \ {f}
  /\ UNCHANGED <<files, stage, packages, namespace_packages, resources, warned, placed>>
  /\ classifyFrame

\* First pass, a package marker: its directory is a package, and a namespace
\* package if the marker declares one.
Pass1Marker(f) ==
  /\ stage = "pass1"
  /\ f \in todo
  /\ f.name = "__init__.py"
  /\ todo' = todo \ {f}
  /\ packages' = packages \cup {Module(f.dir)}
  /\ namespace_packages' =
       IF declares_namespace_package(f.src)
         THEN namespace_packages \cup {Module(f.dir)}
         ELSE namespace_packages
  /\ UNCHANGED <<files, stage, resources, warned, placed>>
  /\ classifyFrame

\* The first walk is over: the second begins.
Pass2Begin ==
  /\ stage = "pass1"
  /\ todo = {}
  /\ stage' = "pass2"
  /\ todo' = files
  /\ UNCHANGED <<files, packages, namespace_packages, resources, warned, placed>>
  /\ classifyFrame

\* Second pass, a source file of a discovered package: continue.
Pass2Skip(f) ==
  /\ stage = "pass2"
  /\ f \in todo
  /\ SkipsSource(Module(f.dir), f.name)
  /\ todo' = todo \ {f}
  /\ UNCHANGED <<files, stage, packages, namespace_packages, resources, warned, placed>>
  /\ classifyFrame

\* Second pass, any other file (lines 227-242): a source file gets the
\* warning; then the file is recorded under nearest_subpackage(module), with
\* its path relative to it, unless the assertion fails.
Pass2Record(f) ==
  /\ stage = "pass2"
  /\ f \in todo
  /\ ~SkipsSource(Module(f.dir), f.name)
  /\ todo' = todo \ {f}
  /\ warned' = IF IsSource(f.name) THEN warned \cup {f} ELSE warned
  /\ LET module == Module(f.dir)
         submodule == nearest_subpackage(module, packages)
         relative_module == SubSeq(module, Len(submodule) + 2, Len(module))
         relative_filename == <<Replace(relative_module, ".", "/"), f.name>>
     IN IF submodule = module
          THEN /\ resources' = ResourcesAdd(resources, submodule, <<<<>>, f.name>>)
               /\ placed' = placed @@ (f :> <<submodule, <<<<>>, f.name>> >>)
               /\ UNCHANGED stage
          ELSE IF ~StartsWith(module, submodule \o <<".">>)
                 THEN /\ stage' = "assert"
                      /\ UNCHANGED <<resources, placed>>
                 ELSE /\ resources' = ResourcesAdd(resources, submodule, relative_filename)
                      /\ placed' = placed @@ (f :> <<submodule, relative_filename>>)
                      /\ UNCHANGED stage
  /\ UNCHANGED <<files, packages, namespace_packages>>
  /\ classifyFrame

\* return packages, namespace_packages, resources
ReturnPackages ==
  /\ stage = "pass2"
  /\ todo = {}
  /\ stage' = "returned"
  /\ UNCHANGED <<files, todo, packages, namespace_packages, resources, warned, placed>>
  /\ classifyFrame

IdleMinify ==
  /\ kind = [n \in Nodes |-> "lib"]
  /\ deps = [n \in Nodes |-> <<>>]
  /\ bins = [n \in Nodes |-> <<>>]
  /\ pc = "idle"
  /\ providers = <<>>
  /\ depmap = <<>>
  /\ parents = {}
  /\ frames = <<>>
  /\ err = <<>>
  /\ root_deps = <<>>
  /\ walk = <<>>
  /\ run = 1
  /\ first = <<>>

IdleClassify ==
  /\ files = {} /\ todo = {} /\ stage = "idle" /\ packages = {}
  /\ namespace_packages = {} /\ resources = <<>> /\ warned = {}
  /\ placed = <<>>

\* Node 1 is the root; the kinds of the other nodes are listed in one order
\* only (providers, then libraries, then requirements): every other labelling
\* is a renaming of one of these, since edges are added in every order.
Init ==
  /\ kind \in {k \in [Nodes -> Kinds] :
                 /\ k[root_target] = "prov"
                 /\ \A i, j \in Nodes \ {root_target} :
                      i < j => ~(k[i] = "req" /\ k[j] # "req")
                                /\ ~(k[i] = "lib" /\ k[j] = "prov")}
  /\ deps = [n \in Nodes |-> <<>>]
  /\ bins = [n \in Nodes |-> <<>>]
  /\ pc = "build"
  /\ providers = <<>>
  /\ depmap = <<>>
  /\ parents = {}
  /\ frames = <<>>
  /\ err = <<>>
  /\ root_deps = <<>>
  /\ walk = <<>>
  /\ run = 1
  /\ first = <<>>
  /\ IdleDetect
  /\ IdleClassify

Next ==
  \/ \E n, m \in Nodes : AddDependency(n, m)
  \/ \E n, m \in Nodes : AddBinary(n, m)
  \/ Call
  \/ Visit
  \/ NextDependency
  \/ Return
  \/ PopRootDeps
  \/ Elide
  \/ Finish

Spec == Init /\ [][Next]_vars

NextTwice ==
  \/ Next
  \/ CallAgain

SpecTwice == Init /\ [][NextTwice]_vars

\* The file has been read and parsed; the scan starts at the first call.
InitDetect ==
  /\ calls \in UNION {[1..n -> CallShapes] : n \in 0..MaxCalls}
  /\ ci = 1
  /\ verdict = "scan"
  /\ IdleMinify
  /\ IdleClassify

NextDetect ==
  \/ SkipArity
  \/ SkipAttribute
  \/ SkipName
  \/ ReturnTrue
  \/ NextCall
  \/ ReturnFalse

SpecDetect == InitDetect /\ [][NextDetect]_vars

InitClassify ==
  /\ files = {}
  /\ todo = {}
  /\ stage = "tree"
  /\ packages = {}
  /\ namespace_packages = {}
  /\ resources = <<>>
  /\ warned = {}
  /\ placed = <<>>
  /\ IdleMinify
  /\ IdleDetect

NextClassify ==
  \/ \E f \in FileUniverse : AddFile(f)
  \/ FindPackages
  \/ \E f \in FileUniverse : Pass1Other(f)
  \/ \E f \in FileUniverse : Pass1Marker(f)
  \/ Pass2Begin
  \/ \E f \in FileUniverse : Pass2Skip(f)
  \/ \E f \in FileUniverse : Pass2Record(f)
  \/ ReturnPackages

SpecClassify == InitClassify /\ [][NextClassify]_vars

\* ------------------------------------------------ claims: the Minimizer

\* The nodes of the declared-dependency subtree of n (what n.walk visits).
DeclaredSubtree(n) == Range(WalkFrom(<<n>>, <<>>))

\* depmap's entry for provider p, as a set (no entry: nothing recorded).
Entry(p) == IF Key(p) \in DOMAIN depmap THEN Range(depmap[Key(p)]) ELSE {}

\* The graph reachable from the root holds a cycle of combined dependencies.
HasCycle == \E n \in ReachStar(root_target) : n \in ReachPlus(n)

\* The providers other than the root that the root reaches.
OtherProviders ==
  {s \in ReachPlus(root_target) : IsProvider(s) /\ Key(s) # Key(root_target)}

Succeeded == pc \in {"resolved", "elide", "done"}

\* C1: a node of the root's declared subtree that another reachable provider
\* has in its closure is absent from the result; and a node the root reaches
\* that no other reachable provider has in its closure is in the result.
C1_Elision ==
  pc = "done" =>
    /\ \A s \in OtherProviders :
         \A x \in DeclaredSubtree(root_target) \cap ReachPlus(s) :
           x \notin Range(root_deps)
    /\ \A x \in ReachPlus(root_target) :
         (\A p \in OtherProviders : x \notin ReachPlus(p)) => x \in Range(root_deps)

C1_Witness ==
  /\ pc = "done"
  /\ \E s \in OtherProviders :
       \E x \in DeclaredSubtree(root_target) \cap ReachPlus(s) :
         /\ kind[x] = "lib"
         /\ x \in Range(deps[root_target])
  /\ root_deps # <<>>

\* C2 (as claimed): every requirement node the root reaches is in the result.
C2_RequirementKept ==
  pc = "done" =>
    \A q \in ReachPlus(root_target) : kind[q] = "req" => q \in Range(root_deps)

\* C3: the call raises the cycle error exactly when the graph reachable from
\* the root holds a cycle; the error names a node on a cycle; an acyclic
\* graph, shared descendants included, raises nothing; and the recursion is
\* never deeper than the number of nodes plus one, so every call ends.
C3_CycleDetection ==
  /\ pc = "error" => /\ HasCycle
                     /\ Len(err) = 1
                     /\ err[1] \in ReachPlus(root_target)
                     /\ err[1] \in ReachPlus(err[1])
  /\ Succeeded => ~HasCycle
  /\ Len(frames) <= Cardinality(Nodes) + 1

C3_Witness ==
  /\ pc = "error"
  /\ root_target \in ReachPlus(root_target)
  /\ \E n \in ReachPlus(root_target) : ~IsProvider(n) /\ root_target \in ReachPlus(n)

C8_Closure ==
  /\ pc = "resolved" =>
       \A p \in ReachStar(root_target) : IsProvider(p) => Entry(p) = ReachPlus(p)
  /\ (pc = "resolve" /\ frames # <<>>
        /\ Top.di <= Len(combined_dependencies(Top.t))
        /\ Top.pi > Len(providers)) =>
       \A i \in 1..Len(providers) :
         /\ providers[i] \in DOMAIN depmap
         /\ combined_dependencies(Top.t)[Top.di] \in Range(depmap[providers[i]])

C8_Witness ==
  /\ pc = "resolved"
  /\ \E s \in OtherProviders :
       /\ bins[s] # <<>>
       /\ deps[s] # <<>>
       /\ \E t \in ReachPlus(s) : IsProvider(t)

\* The keys of the providers among the targets of the first n frames.
RECURSIVE KeysOfFrames(_)
KeysOfFrames(n) ==
  IF n = 0 THEN <<>>
  ELSE IF IsProvider(frames[n].t)
         THEN Append(KeysOfFrames(n - 1), Key(frames[n].t))
         ELSE KeysOfFrames(n - 1)

\* C9: the assertion before the pop never fails; the provider stack is at
\* every moment the keys of the providers whose resolve() is active, in call
\* order (so each visit pops what it pushed and the prv loop of a frame sees,
\* when it resumes, the stack it was iterating); and after a traversal that
\* completes the stack is empty.
C9_StackDiscipline ==
  /\ pc # "assert"
  /\ pc \in {"resolve", "error"} =>
       /\ providers = KeysOfFrames(Len(frames))
       /\ \A i \in 1..Len(frames) : frames[i].pi <= Len(KeysOfFrames(i)) + 1
  /\ Succeeded => providers = <<>>

C9_Witness ==
  /\ pc = "resolve"
  /\ Len(providers) = 3
  /\ Len(frames) = 3
  /\ IsProvider(Top.t)
  /\ Top.di > Len(combined_dependencies(Top.t))
  /\ frames[2].pi = 2

\* ------------------------------------------------- claims: the Detector

\* A call the claim counts as a namespace declaration.
NamespaceDeclaration(c) ==
  /\ c.nargs = 1
  /\ c.arg = "__name__"
  /\ c.func \in {"Name", "Attribute"}
  /\ c.id = "declare_namespace"

\* C6 (as claimed): the result is true exactly when some call of the file has
\* one positional argument, the bare name __name__, and a callee named
\* declare_namespace, as a bare name or as an attribute access.
C6_NamespaceIff ==
  verdict \in {"true", "false"} =>
    ((verdict = "true") <=> \E i \in 1..Len(calls) : NamespaceDeclaration(calls[i]))

\* ----------------------------------------------- claims: the Classifier

\* The join of the first k dot-separated components of a module path.
LeadingRun(module, k) == JoinWith(SubSeq(Split(module), 1, k), ".")

\* What is left of a module path after its first k components, as a
\* relative directory path.
RestPath(module, k) ==
  JoinWith(SubSeq(Split(module), k + 1, Len(Split(module))), "/")

Largest(S) == CHOOSE k \in S : \A j \in S : j <= k

\* A source file whose directory is not a discovered package.
Orphan(f) == IsSource(f.name) /\ Module(f.dir) \notin packages

\* The lengths of the leading runs of `module` that some discovered package
\* starts with.
SharedRuns(module) ==
  {k \in 1..Len(Split(module)) :
     \E p \in packages :
       /\ Len(Split(p)) >= k
       /\ SubSeq(Split(p), 1, k) = SubSeq(Split(module), 1, k)}

\* The lengths of the leading runs of `module` that are discovered packages.
PackageRuns(module) ==
  {k \in 1..Len(Split(module)) : LeadingRun(module, k) \in packages}

C5_ResourceOwnership ==
  stage = "returned" =>
    \A f \in files :
      (~IsSource(f.name) /\ PackageRuns(Module(f.dir)) # {}) =>
        LET module == Module(f.dir)
            k == Largest(PackageRuns(module))
        IN /\ f \in DOMAIN placed
           /\ placed[f][1] \in packages
           /\ placed[f] = <<LeadingRun(module, k), <<RestPath(module, k), f.name>> >>
           /\ placed[f][2] \in resources[placed[f][1]]

\* C10: for every candidate path and every set of discovered packages,
\* nearest_subpackage gives the candidate or a non-empty proper leading run
\* of its components, so that the candidate starts with the result followed
\* by a dot; the assertion of find_packages never fails.
C10_NearestIsLeadingRun ==
  /\ \A d \in DirUniverse :
       LET module == Module(d)
           submodule == nearest_subpackage(module, packages)
       IN /\ \/ submodule = module
             \/ \E k \in 1..(Len(Split(module)) - 1) : submodule = LeadingRun(module, k)
          /\ submodule # module => StartsWith(module, submodule \o <<".">>)
  /\ stage # "assert"

C10_Witness ==
  /\ stage = "returned"
  /\ \E f \in DOMAIN placed :
       /\ placed[f][1] # Module(f.dir)
       /\ Len(Split(placed[f][1])) = 2
       /\ Len(Split(Module(f.dir))) = 3

====
